---- MODULE Spec2Model ----
(***************************************************************************)
(* Polynomial interpolation: the SLATEC coefficient generator              *)
(* (slatec_polint), the evaluator (slatec_polyvl) and the incremental      *)
(* wrapper poly_interpolator<Scalar>.                                      *)
(*                                                                         *)
(* Scalars are rationals <<num, den>> in lowest terms with den > 0.  The   *)
(* variable arith fixes the arithmetic of a behaviour: "exact" is the      *)
(* real-number reading of the algorithms, "float" rounds the result of     *)
(* every arithmetic operation to MantBits significant bits, round to       *)
(* nearest, ties to even, as the binary floating-point Scalar types of the *)
(* source do (exponent range unbounded: no overflow, underflow or NaN).    *)
(* C arrays are 0-based, sequences here are 1-based: index K stands for    *)
(* the source's k = K - 1.                                                 *)
(***************************************************************************)
EXTENDS Integers, Sequences, FiniteSets, TLC

VARIABLES
  arith,               \* "exact" or "float": the arithmetic of Scalar
  abscissaDeltaThres,  \* poly_interpolator::abscissaDeltaThres
  X, Y, C, N,          \* poly_interpolator's four co-indexed vectors
  pts,                 \* history: for each slot, the points add put into it
  thresMoved,          \* history: the threshold changed after an add
  adds,                \* history: add calls that returned, since the last clear()
  valid,               \* history: last interpolate() succeeded, no add since
  ret,                 \* the last call on the interpolator and what it returned
  px, py, pc,          \* arrays x, y, c handed to slatec_polint / slatec_polyvl
  pstatus,             \* status returned by slatec_polint
  pxx, pyy, vstatus,   \* slatec_polyvl's xx, *yy and returned status
  phase,               \* position of the caller of the two routines
  cmp                  \* what the double and the single precision routines returned

vars == <<arith, abscissaDeltaThres, X, Y, C, N, pts, thresMoved, adds, valid, ret,
          px, py, pc, pstatus, pxx, pyy, vstatus, phase, cmp>>

wvars == <<abscissaDeltaThres, X, Y, C, N, pts, thresMoved, adds, valid, ret>>
pvars == <<px, py, pc, pstatus, pxx, pyy, vstatus, phase, cmp>>

----------------------------------------------------------------------------
(* Bounds of the model *)

MantBits == 2      \* significant bits of the rounded Scalar
MaxN     == 3      \* longest array given to slatec_polint
MaxAdds  == 3      \* add calls between two clear() calls

----------------------------------------------------------------------------
(* Scalar arithmetic *)

Abs(i) == IF i < 0 THEN -i ELSE i

RECURSIVE GCD(_, _)
GCD(a, b) == IF b = 0 THEN a ELSE GCD(b, a % b)

Rat(n, d) ==
  LET s == IF d < 0 THEN -1 ELSE 1
      g == GCD(Abs(n), Abs(d))
  IN  <<(s * n) \div g, (s * d) \div g>>

I2S(i) == <<i, 1>>
Zero == <<0, 1>>
One  == <<1, 1>>

Pow2(k) == IF k = 0 THEN 1 ELSE IF k = 1 THEN 2 ELSE IF k = 2 THEN 4
           ELSE IF k = 3 THEN 8 ELSE IF k = 4 THEN 16 ELSE 32

\* n/d > 0 rounded to MantBits significant bits; un/ud is the weight of the
\* last mantissa bit reached so far.
RECURSIVE RoundPos(_, _, _, _)
RoundPos(n, d, un, ud) ==
  IF n >= d * Pow2(MantBits) THEN RoundPos(n, 2 * d, 2 * un, ud)
  ELSE IF n < d * Pow2(MantBits - 1) THEN RoundPos(2 * n, d, un, 2 * ud)
  ELSE LET m   == n \div d
           rem == n - m * d
           mr  == IF 2 * rem < d THEN m
                  ELSE IF 2 * rem > d THEN m + 1
                  ELSE IF m % 2 = 0 THEN m ELSE m + 1
       IN  Rat(mr * un, ud)

Round(q) ==
  IF q[1] = 0 THEN Zero
  ELSE IF q[1] > 0 THEN RoundPos(q[1], q[2], 1, 1)
  ELSE LET r == RoundPos(-q[1], q[2], 1, 1) IN <<-r[1], r[2]>>

Fl(q) == IF arith = "exact" THEN q ELSE Round(q)

SAdd(a, b) == Fl(Rat(a[1] * b[2] + b[1] * a[2], a[2] * b[2]))
SSub(a, b) == Fl(Rat(a[1] * b[2] - b[1] * a[2], a[2] * b[2]))
SMul(a, b) == Fl(Rat(a[1] * b[1], a[2] * b[2]))
SDiv(a, b) == Fl(Rat(a[1] * b[2], a[2] * b[1]))
SLt(a, b)  == a[1] * b[2] < b[1] * a[2]
SLe(a, b)  == a[1] * b[2] <= b[1] * a[2]

\* Exact reference arithmetic, used by the properties only
QAdd(a, b) == Rat(a[1] * b[2] + b[1] * a[2], a[2] * b[2])
QSub(a, b) == Rat(a[1] * b[2] - b[1] * a[2], a[2] * b[2])
QDivI(a, i) == Rat(a[1], a[2] * i)

----------------------------------------------------------------------------
(* slatec_polint: Newton divided differences, in place in c *)

slatec_polint_success == 0
slatec_polint_failure == -1
slatec_polint_abscissae_not_distinct == -2

slatec_polyvl_success == 0
slatec_polyvl_failure == -1

\* slip: the difference taken the other way round, x[k] - x[i]
RECURSIVE polint_inner_swapped(_, _, _, _)
polint_inner_swapped(x, c, K, I) ==
  IF I >= K THEN [status |-> slatec_polint_success, c |-> c]
  ELSE LET dif == SSub(x[K], x[I])
       IN  IF dif = Zero
           THEN [status |-> slatec_polint_abscissae_not_distinct, c |-> c]
           ELSE polint_inner_swapped(x,
                  [c EXCEPT ![K] = SDiv(SSub(c[I], c[K]), dif)], K, I + 1)

\* the inner loop, for (i = 0; i < k; i++), from i = I - 1 on
RECURSIVE polint_inner(_, _, _, _)
polint_inner(x, c, K, I) ==
  IF I >= K THEN [status |-> slatec_polint_success, c |-> c]
  ELSE LET dif == SSub(x[I], x[K])
       IN  IF dif = Zero
           THEN [status |-> slatec_polint_abscissae_not_distinct, c |-> c]
           ELSE polint_inner(x, [c EXCEPT ![K] = SDiv(SSub(c[I], c[K]), dif)],
                             K, I + 1)

\* slip: the outer loop starts one late, for (k = 2; k < n; k++)
RECURSIVE polint_outer_late(_, _, _, _, _)
polint_outer_late(n, x, y, c, K) ==
  IF K > n THEN [status |-> slatec_polint_success, c |-> c]
  ELSE IF K = 2 THEN polint_outer_late(n, x, y, c, 3)
  ELSE LET r == polint_inner(x, [c EXCEPT ![K] = y[K]], K, 1)
       IN  IF r.status # slatec_polint_success THEN r
           ELSE polint_outer_late(n, x, y, r.c, K + 1)

\* the outer loop, for (k = 1; k < n; k++), from k = K - 1 on
RECURSIVE polint_outer(_, _, _, _, _)
polint_outer(n, x, y, c, K) ==
  IF K > n THEN [status |-> slatec_polint_success, c |-> c]
  ELSE LET r == polint_inner(x, [c EXCEPT ![K] = y[K]], K, 1)
       IN  IF r.status # slatec_polint_success THEN r
           ELSE polint_outer(n, x, y, r.c, K + 1)

\* slip: c[0] = y[0] left out
slatec_polint_no_c0(n, x, y, c) ==
  IF n = 0 THEN [status |-> slatec_polint_failure, c |-> c]
  ELSE IF n = 1 THEN [status |-> slatec_polint_success, c |-> c]
  ELSE polint_outer(n, x, y, c, 2)

slatec_polint(n, x, y, c) ==
  IF n = 0 THEN [status |-> slatec_polint_failure, c |-> c]
  ELSE LET c0 == [c EXCEPT ![1] = y[1]]
       IN  IF n = 1 THEN [status |-> slatec_polint_success, c |-> c0]
           ELSE polint_outer(n, x, y, c0, 2)

----------------------------------------------------------------------------
(* slatec_polyvl: nested multiplication of the Newton form *)

\* slip: ptwo = pone = pitwo * c[k], the running value assigned, not added to
RECURSIVE polyvl_loop_assign(_, _, _, _, _, _, _)
polyvl_loop_assign(xx, n, x, c, K, pione, pone) ==
  IF K > n THEN pone
  ELSE LET pitwo == SMul(SSub(xx, x[K - 1]), pione)
           ptwo  == SMul(pitwo, c[K])
       IN  polyvl_loop_assign(xx, n, x, c, K + 1, pitwo, ptwo)

\* the loop, for (k = 1; k < n; k++), from k = K - 1 on; returns ptwo
RECURSIVE polyvl_loop(_, _, _, _, _, _, _)
polyvl_loop(xx, n, x, c, K, pione, pone) ==
  IF K > n THEN pone
  ELSE LET pitwo == SMul(SSub(xx, x[K - 1]), pione)
           ptwo  == SAdd(pone, SMul(pitwo, c[K]))
       IN  polyvl_loop(xx, n, x, c, K + 1, pitwo, ptwo)

\* yy is the value *yy holds at the call; it is written on success only
slatec_polyvl(xx, yy, n, x, c) ==
  IF n = 0 THEN [status |-> slatec_polyvl_failure, yy |-> yy]
  ELSE IF n = 1 THEN [status |-> slatec_polyvl_success, yy |-> c[1]]
  ELSE [status |-> slatec_polyvl_success,
        yy |-> polyvl_loop(xx, n, x, c, 2, One, c[1])]

----------------------------------------------------------------------------
(* The other headers of the repository.  The double and the single         *)
(* precision routine of a header run here over the same Scalar, so that    *)
(* what they return differs only if their steps differ.                    *)

\* slatec_polintf of the header with int status: for (i = 0; i < k - 1; i++)
RECURSIVE polintf_inner(_, _, _, _)
polintf_inner(x, c, K, I) ==
  IF I >= K - 1 THEN [status |-> slatec_polint_success, c |-> c]
  ELSE LET dif == SSub(x[I], x[K])
       IN  IF dif = Zero
           THEN [status |-> slatec_polint_abscissae_not_distinct, c |-> c]
           ELSE polintf_inner(x, [c EXCEPT ![K] = SDiv(SSub(c[I], c[K]), dif)],
                              K, I + 1)

RECURSIVE polintf_outer(_, _, _, _, _)
polintf_outer(n, x, y, c, K) ==
  IF K > n THEN [status |-> slatec_polint_success, c |-> c]
  ELSE LET r == polintf_inner(x, [c EXCEPT ![K] = y[K]], K, 1)
       IN  IF r.status # slatec_polint_success THEN r
           ELSE polintf_outer(n, x, y, r.c, K + 1)

slatec_polintf(n, x, y, c) ==
  IF n = 0 THEN [status |-> slatec_polint_failure, c |-> c]
  ELSE LET c0 == [c EXCEPT ![1] = y[1]]
       IN  IF n = 1 THEN [status |-> slatec_polint_success, c |-> c0]
           ELSE polintf_outer(n, x, y, c0, 2)

\* polyvl: the loop, ptwo = pone = pitwo * c[k]
RECURSIVE polyvl_for(_, _, _, _, _, _, _)
polyvl_for(xx, n, x, c, K, pione, pone) ==
  IF K > n THEN pone
  ELSE LET pitwo == SMul(SSub(xx, x[K - 1]), pione)
           ptwo  == SMul(pitwo, c[K])
       IN  polyvl_for(xx, n, x, c, K + 1, pitwo, ptwo)

\* polyvl has no n == 0 guard: with n = 0 it reads c[0] past the end, skips
\* the loop and returns ptwo uninitialized; u is the value found there
polyvl(xx, n, x, c, u) ==
  IF n = 0 THEN u
  ELSE IF n = 1 THEN c[1]
  ELSE polyvl_for(xx, n, x, c, 2, One, c[1])

\* polyvlf: the loop, ptwo = pone = pitwo * c[k]
RECURSIVE polyvlf_for(_, _, _, _, _, _, _)
polyvlf_for(xx, n, x, c, K, pione, pone) ==
  IF K > n THEN pone
  ELSE LET pitwo == SMul(SSub(xx, x[K - 1]), pione)
           ptwo  == SMul(pitwo, c[K])
       IN  polyvlf_for(xx, n, x, c, K + 1, pitwo, ptwo)

polyvlf(xx, n, x, c) ==
  IF n = 0 THEN Zero
  ELSE IF n = 1 THEN c[1]
  ELSE polyvlf_for(xx, n, x, c, 2, One, c[1])

----------------------------------------------------------------------------
(* A caller of the two routines: generate once, then evaluate *)

PureX  == {0, 1, 2, 4}     \* abscissae offered to slatec_polint
PureY  == {0, 1, 3}        \* ordinates offered
Probes == {-1, 0, 1, 2, 3, 4, 6}  \* query abscissae xx

\* what a call threw: the type of the exception and, for a status, its value
Thrown(type, status) == [type |-> type, status |-> status]
Nothing == Thrown("nothing", 0)

SeqsOf(S, n) == [1..n -> S]
ScalarSeq(f) == [i \in DOMAIN f |-> I2S(f[i])]

\* nothing returned yet by the routines compared
NoCalls ==
  [polint  |-> [status |-> slatec_polint_success, c |-> <<>>],
   polintf |-> [status |-> slatec_polint_success, c |-> <<>>],
   polyvl  |-> Zero,
   polyvlf |-> Zero]

InitWrapper ==
  /\ abscissaDeltaThres = Zero
  /\ X = <<>> /\ Y = <<>> /\ C = <<>> /\ N = <<>>
  /\ pts = <<>>
  /\ thresMoved = FALSE
  /\ adds = 0
  /\ valid = FALSE
  /\ ret = [op |-> "new", x |-> Zero, y |-> Zero, thrown |-> Nothing]

InitCaller ==
  /\ px = <<>> /\ py = <<>> /\ pc = <<>>
  /\ pstatus = slatec_polint_success
  /\ pxx = Zero /\ pyy = Zero
  /\ vstatus = slatec_polyvl_success
  /\ phase = "idle"
  /\ cmp = NoCalls

InitPure ==
  /\ arith \in {"exact", "float"}
  /\ InitWrapper
  /\ \E n \in 0..MaxN :
       /\ \E f \in SeqsOf(PureX, n) : px = ScalarSeq(f)
       /\ \E f \in SeqsOf(PureY, n) : py = ScalarSeq(f)
       /\ \E v \in {0, 1} : pc = [i \in 1..n |-> I2S(v)]
  /\ pstatus = slatec_polint_success
  /\ pxx = Zero /\ pyy = Zero
  /\ vstatus = slatec_polyvl_success
  /\ phase = "input"
  /\ cmp = NoCalls

CallPolint ==
  /\ phase = "input"
  /\ LET r == slatec_polint(Len(px), px, py, pc)
     IN  /\ pc' = r.c
         /\ pstatus' = r.status
  /\ phase' = "generated"
  /\ UNCHANGED <<arith, px, py, pxx, pyy, vstatus, cmp>>
  /\ UNCHANGED wvars

CallPolyvl(xx) ==
  /\ phase = "generated"
  /\ LET r == slatec_polyvl(xx, pyy, Len(px), px, pc)
     IN  /\ pyy' = r.yy
         /\ vstatus' = r.status
  /\ pxx' = xx
  /\ phase' = "evaluated"
  /\ UNCHANGED <<arith, px, py, pc, pstatus, cmp>>
  /\ UNCHANGED wvars

NextPure ==
  \/ CallPolint
  \/ \E v \in Probes : CallPolyvl(I2S(v))

SpecPure == InitPure /\ [][NextPure]_vars

\* the same arrays handed to the double and to the single precision routine
Indeterminate == {0, 1}      \* values an uninitialized double may hold

ComparePolint ==
  /\ phase = "input"
  /\ LET r == slatec_polint(Len(px), px, py, pc)
     IN  /\ pc' = r.c
         /\ pstatus' = r.status
         /\ cmp' = [cmp EXCEPT !.polint = r,
                               !.polintf = slatec_polintf(Len(px), px, py, pc)]
  /\ phase' = "generated"
  /\ UNCHANGED <<arith, px, py, pxx, pyy, vstatus>>
  /\ UNCHANGED wvars

ComparePolyvl(xx, u) ==
  /\ phase = "generated"
  /\ cmp' = [cmp EXCEPT !.polyvl = polyvl(xx, Len(px), px, pc, u),
                        !.polyvlf = polyvlf(xx, Len(px), px, pc)]
  /\ pxx' = xx
  /\ phase' = "compared"
  /\ UNCHANGED <<arith, px, py, pc, pstatus, pyy, vstatus>>
  /\ UNCHANGED wvars

NextVariants ==
  \/ ComparePolint
  \/ \E v \in Probes, u \in Indeterminate : ComparePolyvl(I2S(v), I2S(u))

SpecVariants == InitPure /\ [][NextVariants]_vars

----------------------------------------------------------------------------
(* poly_interpolator<Scalar> *)

AddX      == {0, 3, 4}       \* abscissae offered to add
AddY      == {0, 1}          \* ordinates offered to add
ThresVals == {-1, 0, 3}      \* arguments offered to set_abscissa_thres
EvalVals  == {5}             \* arguments offered to operator(), besides the stored abscissae

size == Len(N)               \* n()

Range(f) == {f[i] : i \in DOMAIN f}

InsertAt(s, i, e) == SubSeq(s, 1, i) \o <<e>> \o SubSeq(s, i + 1, Len(s))

\* for (; Xi != X.end() && *Xi < x; ++Xi): the distance of Xi from X.begin()
RECURSIVE scan(_, _, _)
scan(Xs, x, i) ==
  IF i # Len(Xs) /\ SLt(Xs[i + 1], x) THEN scan(Xs, x, i + 1) ELSE i

\* slip: the plain mean of the new point and the slot, the count forgotten
running_mean_unweighted(v, old, cnt) == SDiv(SAdd(v, old), I2S(2))

\* slip: the count weighs the new point, not the slot
running_mean_new_weighted(v, old, cnt) ==
  SDiv(SAdd(SMul(v, I2S(cnt)), old), I2S(cnt + 1))

\* (v + old * N[i]) / (N[i] + 1); the counts convert to Scalar exactly
running_mean(v, old, cnt) == SDiv(SAdd(v, SMul(old, I2S(cnt))), I2S(cnt + 1))

\* slip: the right neighbour tried before the left one
add_branch_right_first(Xs, x, thres) ==
  LET i == scan(Xs, x, 0)
  IN  IF i # Len(Xs) /\ SLe(SSub(Xs[i + 1], x), thres)
      THEN [kind |-> "right", slot |-> i + 1]
      ELSE IF i # 0 /\ SLe(SSub(x, Xs[i]), thres) THEN [kind |-> "left", slot |-> i]
      ELSE [kind |-> "new", slot |-> i + 1]

\* slip: the two distances compared with <, not <=
add_branch_strict(Xs, x, thres) ==
  LET i == scan(Xs, x, 0)
  IN  IF i # 0 /\ SLt(SSub(x, Xs[i]), thres) THEN [kind |-> "left", slot |-> i]
      ELSE IF i # Len(Xs) /\ SLt(SSub(Xs[i + 1], x), thres)
           THEN [kind |-> "right", slot |-> i + 1]
      ELSE [kind |-> "new", slot |-> i + 1]

\* which branch of add is taken, and the slot (1-based) it acts on
add_branch(Xs, x, thres) ==
  LET i == scan(Xs, x, 0)
  IN  IF i # 0 /\ SLe(SSub(x, Xs[i]), thres) THEN [kind |-> "left", slot |-> i]
      ELSE IF i # Len(Xs) /\ SLe(SSub(Xs[i + 1], x), thres)
           THEN [kind |-> "right", slot |-> i + 1]
      ELSE [kind |-> "new", slot |-> i + 1]

set_abscissa_thres(x) ==
  /\ abscissaDeltaThres' = IF SLe(Zero, x) THEN x ELSE abscissaDeltaThres
  /\ thresMoved' = (thresMoved \/ (adds > 0 /\ abscissaDeltaThres' # abscissaDeltaThres))
  /\ ret' = [op |-> "set_abscissa_thres", x |-> x, y |-> Zero, thrown |-> Nothing]
  /\ UNCHANGED <<arith, X, Y, C, N, pts, adds, valid>>
  /\ UNCHANGED pvars

\* slip: the new-slot branch forgets the placeholder in C
add_without_C(x, y) ==
  /\ adds < MaxAdds
  /\ LET b == add_branch(X, x, abscissaDeltaThres)
         i == b.slot
     IN  IF b.kind = "new"
         THEN /\ X' = InsertAt(X, i - 1, x)
              /\ Y' = InsertAt(Y, i - 1, y)
              /\ C' = C
              /\ N' = InsertAt(N, i - 1, 1)
              /\ pts' = InsertAt(pts, i - 1, <<<<x, y>>>>)
         ELSE /\ X' = [X EXCEPT ![i] = running_mean(x, X[i], N[i])]
              /\ Y' = [Y EXCEPT ![i] = running_mean(y, Y[i], N[i])]
              /\ N' = [N EXCEPT ![i] = N[i] + 1]
              /\ C' = C
              /\ pts' = [pts EXCEPT ![i] = Append(pts[i], <<x, y>>)]
  /\ adds' = adds + 1
  /\ valid' = FALSE
  /\ ret' = [op |-> "add", x |-> x, y |-> y, thrown |-> Nothing]
  /\ UNCHANGED <<arith, abscissaDeltaThres, thresMoved>>
  /\ UNCHANGED pvars

\* slip: add regenerates the coefficients itself
add_regenerates(x, y) ==
  /\ adds < MaxAdds
  /\ LET b == add_branch(X, x, abscissaDeltaThres)
         i == b.slot
     IN  /\ IF b.kind = "new"
            THEN /\ X' = InsertAt(X, i - 1, x)
                 /\ Y' = InsertAt(Y, i - 1, y)
                 /\ N' = InsertAt(N, i - 1, 1)
                 /\ pts' = InsertAt(pts, i - 1, <<<<x, y>>>>)
            ELSE /\ X' = [X EXCEPT ![i] = running_mean(x, X[i], N[i])]
                 /\ Y' = [Y EXCEPT ![i] = running_mean(y, Y[i], N[i])]
                 /\ N' = [N EXCEPT ![i] = N[i] + 1]
                 /\ pts' = [pts EXCEPT ![i] = Append(pts[i], <<x, y>>)]
         /\ C' = slatec_polint(Len(N'), X', Y',
                               IF b.kind = "new" THEN InsertAt(C, i - 1, Zero) ELSE C).c
  /\ adds' = adds + 1
  /\ valid' = FALSE
  /\ ret' = [op |-> "add", x |-> x, y |-> y, thrown |-> Nothing]
  /\ UNCHANGED <<arith, abscissaDeltaThres, thresMoved>>
  /\ UNCHANGED pvars

add(x, y) ==
  /\ adds < MaxAdds
  /\ LET b == add_branch(X, x, abscissaDeltaThres)
         i == b.slot
     IN  IF b.kind = "new"
         THEN /\ X' = InsertAt(X, i - 1, x)
              /\ Y' = InsertAt(Y, i - 1, y)
              /\ C' = InsertAt(C, i - 1, Zero)
              /\ N' = InsertAt(N, i - 1, 1)
              /\ pts' = InsertAt(pts, i - 1, <<<<x, y>>>>)
         ELSE /\ X' = [X EXCEPT ![i] = running_mean(x, X[i], N[i])]
              /\ Y' = [Y EXCEPT ![i] = running_mean(y, Y[i], N[i])]
              /\ N' = [N EXCEPT ![i] = N[i] + 1]
              /\ C' = C
              /\ pts' = [pts EXCEPT ![i] = Append(pts[i], <<x, y>>)]
  /\ adds' = adds + 1
  /\ valid' = FALSE
  /\ ret' = [op |-> "add", x |-> x, y |-> y, thrown |-> Nothing]
  /\ UNCHANGED <<arith, abscissaDeltaThres, thresMoved>>
  /\ UNCHANGED pvars

\* one of the four reserve calls of the new-slot branch throws: they all
\* precede the four inserts, which then cannot reallocate
add_reserve_throws(x, y) ==
  /\ adds < MaxAdds
  /\ add_branch(X, x, abscissaDeltaThres).kind = "new"
  /\ ret' = [op |-> "add", x |-> Zero, y |-> Zero, thrown |-> Thrown("bad_alloc", 0)]
  /\ UNCHANGED <<arith, abscissaDeltaThres, X, Y, C, N, pts, thresMoved, adds, valid>>
  /\ UNCHANGED pvars

\* slip: the status of polint dropped, nothing thrown
interpolate_swallows ==
  /\ LET r == slatec_polint(Len(N), X, Y, C)
     IN  /\ C' = r.c
         /\ valid' = (r.status = slatec_polint_success)
         /\ ret' = [op |-> "interpolate", x |-> Zero, y |-> Zero,
                    thrown |-> Nothing]
  /\ UNCHANGED <<arith, abscissaDeltaThres, X, Y, N, pts, thresMoved, adds>>
  /\ UNCHANGED pvars

interpolate ==
  /\ LET r == slatec_polint(Len(N), X, Y, C)
     IN  /\ C' = r.c
         /\ valid' = (r.status = slatec_polint_success)
         /\ ret' = [op |-> "interpolate", x |-> Zero, y |-> Zero,
                    thrown |-> IF r.status # slatec_polint_success
                               THEN Thrown("slatec_polint_status", r.status)
                               ELSE Nothing]
  /\ UNCHANGED <<arith, abscissaDeltaThres, X, Y, N, pts, thresMoved, adds>>
  /\ UNCHANGED pvars

\* slip: operator() without the N.size() == 0 guard
call_no_fallback(x) ==
  /\ LET r == slatec_polyvl(x, Zero, Len(N), X, C)
     IN  ret' = [op |-> "call", x |-> x, y |-> r.yy,
                 thrown |-> IF r.status # slatec_polyvl_success
                            THEN Thrown("slatec_polyvl_status", r.status)
                            ELSE Nothing]
  /\ UNCHANGED <<arith, abscissaDeltaThres, X, Y, C, N, pts, thresMoved, adds, valid>>
  /\ UNCHANGED pvars

\* operator()(x)
call(x) ==
  /\ IF Len(N) = 0
     THEN ret' = [op |-> "call", x |-> x, y |-> x, thrown |-> Nothing]
     ELSE LET r == slatec_polyvl(x, Zero, Len(N), X, C)
          IN  ret' = [op |-> "call", x |-> x, y |-> r.yy,
                      thrown |-> IF r.status # slatec_polyvl_success
                                 THEN Thrown("slatec_polyvl_status", r.status)
                                 ELSE Nothing]
  /\ UNCHANGED <<arith, abscissaDeltaThres, X, Y, C, N, pts, thresMoved, adds, valid>>
  /\ UNCHANGED pvars

clear ==
  /\ X' = <<>> /\ Y' = <<>> /\ C' = <<>> /\ N' = <<>>
  /\ pts' = <<>>
  /\ adds' = 0
  /\ thresMoved' = FALSE
  /\ valid' = FALSE
  /\ ret' = [op |-> "clear", x |-> Zero, y |-> Zero, thrown |-> Nothing]
  /\ UNCHANGED <<arith, abscissaDeltaThres>>
  /\ UNCHANGED pvars

Init ==
  /\ arith \in {"exact", "float"}
  /\ InitWrapper
  /\ InitCaller

Next ==
  \/ \E t \in ThresVals : set_abscissa_thres(I2S(t))
  \/ \E x \in AddX, y \in AddY : add(I2S(x), I2S(y))
  \/ \E x \in AddX, y \in AddY : add_reserve_throws(I2S(x), I2S(y))
  \/ interpolate
  \/ \E x \in {I2S(v) : v \in EvalVals} \cup Range(X) : call(x)
  \/ clear

Spec == Init /\ [][Next]_vars

\* points entered one by one under a threshold chosen at the start
MergeX     == {1, 2, 3, 4}   \* abscissae offered to add
MergeThres == {0, 2, 3}      \* thresholds offered to set_abscissa_thres

NextMerge ==
  \/ \E t \in MergeThres : set_abscissa_thres(I2S(t))
  \/ \E x \in MergeX, y \in AddY : add(I2S(x), I2S(y))

SpecMerge == Init /\ [][NextMerge]_vars

----------------------------------------------------------------------------
(* Properties of poly_interpolator *)

RECURSIVE SumSeq(_)
SumSeq(s) == IF s = <<>> THEN 0 ELSE Head(s) + SumSeq(Tail(s))

RECURSIVE QSum(_)
QSum(s) == IF s = <<>> THEN Zero ELSE QAdd(Head(s), QSum(Tail(s)))

\* exact arithmetic mean of coordinate k of the points ps
MeanOf(ps, k) == QDivI(QSum([j \in 1..Len(ps) |-> ps[j][k]]), Len(ps))

\* C2: in every reachable state the stored abscissae are strictly ascending.
Sortedness == \A i \in 1..Len(X) : i = 1 \/ SLt(X[i - 1], X[i])

\* the original C3: in every reachable state, whatever the arithmetic of
\* Scalar, N[i] counts the points of slot i, the counts add up to the add
\* calls, and X[i], Y[i] equal the arithmetic means of the slot's points.
SlotMeansEqual ==
  /\ Len(pts) = Len(N) /\ Len(X) = Len(N) /\ Len(Y) = Len(N)
  /\ \A i \in 1..Len(N) : /\ N[i] = Len(pts[i])
                            /\ X[i] = MeanOf(pts[i], 1)
                            /\ Y[i] = MeanOf(pts[i], 2)
  /\ SumSeq(N) = adds

\* C3, amended: every slot's N is the number of points add put into it, the counts
\* add up to the number of add calls since the last clear(), and (exact
\* arithmetic) X and Y of the slot are the arithmetic means of those points.
SlotMeans ==
  /\ Len(pts) = Len(N) /\ Len(X) = Len(N) /\ Len(Y) = Len(N)
  /\ \A i \in 1..Len(N) : N[i] = Len(pts[i])
  /\ SumSeq(N) = adds
  /\ arith = "exact" =>
       \A i \in 1..Len(N) : /\ X[i] = MeanOf(pts[i], 1)
                            /\ Y[i] = MeanOf(pts[i], 2)

SlotMeansWitness ==
  /\ arith = "exact"
  /\ N = <<3>> /\ X = << <<7, 3>> >> /\ Y = << <<2, 3>> >>
  /\ pts[1][1][1] = Zero

MinOf(S) == CHOOSE m \in S : \A k \in S : m <= k

\* C4: add(x, y) merges into the slot left of the first stored abscissa >= x
\* when x is within the threshold of it (distance equal to the threshold
\* included), else into that first slot when it is within the threshold,
\* else inserts a new slot there; a merge keeps n(), a new slot adds one.
BranchSelection ==
  [][(ret'.op = "add" /\ ret'.thrown = Nothing) =>
      LET x == ret'.x
          y == ret'.y
          t == abscissaDeltaThres
          S == {i \in 1..Len(X) : SLe(x, X[i])}
          p == IF S = {} THEN Len(X) + 1 ELSE MinOf(S)
          Merged(m) ==
            /\ Len(N') = Len(N)
            /\ N' = [N EXCEPT ![m] = N[m] + 1]
            /\ pts' = [pts EXCEPT ![m] = Append(pts[m], <<x, y>>)]
            /\ \A j \in 1..Len(X) : j # m => X'[j] = X[j] /\ Y'[j] = Y[j]
          Inserted ==
            /\ Len(N') = Len(N) + 1
            /\ X'[p] = x /\ Y'[p] = y /\ N'[p] = 1 /\ pts'[p] = << <<x, y>> >>
            /\ \A j \in 1..Len(X) :
                 LET jj == IF j < p THEN j ELSE j + 1
                 IN  X'[jj] = X[j] /\ Y'[jj] = Y[j] /\ N'[jj] = N[j]
      IN  IF p > 1 /\ SLe(SSub(x, X[p - 1]), t) THEN Merged(p - 1)
          ELSE IF p <= Len(X) /\ SLe(SSub(X[p], x), t) THEN Merged(p)
          ELSE Inserted]_vars

\* the left neighbour taken at distance exactly the threshold, the right one closer
BranchSelectionWitness ==
  /\ ret.op = "add" /\ ret.x = I2S(3) /\ ret.thrown = Nothing
  /\ abscissaDeltaThres = I2S(3)
  /\ X = << <<3, 2>>, I2S(4) >> /\ N = <<2, 1>>

\* C5: in exact arithmetic, interpolate() on n() >= 1 slots succeeds, and
\* from then until the next add or clear operator()(X[i]) returns Y[i].
ReadyExactness ==
  arith = "exact" =>
    /\ (ret.op = "interpolate" /\ Len(N) >= 1) => (ret.thrown = Nothing /\ valid)
    /\ (valid /\ ret.op = "call") =>
         /\ ret.thrown = Nothing
         /\ \A i \in 1..Len(N) : ret.x = X[i] => ret.y = Y[i]

ReadyExactnessWitness ==
  /\ arith = "exact" /\ valid /\ ret.op = "call"
  /\ X = << <<3, 2>>, I2S(4) >> /\ Y = << <<1, 2>>, Zero >> /\ N = <<2, 1>>
  /\ ret.x = <<3, 2>> /\ ret.y = <<1, 2>>

\* C7: a fresh or just cleared interpolator has X, Y, C, N empty and n() = 0;
\* operator()(x) on zero slots returns x, and operator() never throws.
IdentityFallback ==
  /\ ret.op \in {"new", "clear"} =>
       X = <<>> /\ Y = <<>> /\ C = <<>> /\ N = <<>> /\ size = 0
  /\ ret.op = "call" => ret.thrown = Nothing
  /\ (ret.op = "call" /\ size = 0) => ret.y = ret.x

\* zero slots, a threshold set earlier, operator()(5) gave 5
IdentityFallbackWitness ==
  /\ ret.op = "call" /\ size = 0 /\ abscissaDeltaThres = I2S(3)
  /\ ret.x = I2S(5) /\ ret.y = I2S(5)

\* C8: X, Y, C and N always have the same length; an add leaves all four
\* lengths unchanged or puts one element at the same index in all four
\* (x, y, placeholder 0 and count 1).
Alignment ==
  [][/\ Len(X) = Len(Y) /\ Len(Y) = Len(C) /\ Len(C) = Len(N)
     /\ Len(X') = Len(Y') /\ Len(Y') = Len(C') /\ Len(C') = Len(N')
     /\ ret'.op = "add" =>
          \/ X' = X /\ Y' = Y /\ C' = C /\ N' = N /\ ret'.thrown # Nothing
          \/ Len(X') = Len(X) /\ C' = C /\ ret'.thrown = Nothing
          \/ \E i \in 1..Len(X) + 1 :
               /\ X' = InsertAt(X, i - 1, ret'.x)
               /\ Y' = InsertAt(Y, i - 1, ret'.y)
               /\ C' = InsertAt(C, i - 1, Zero)
               /\ N' = InsertAt(N, i - 1, 1)]_vars

\* a slot inserted in the middle, below stale coefficients
AlignmentWitness ==
  /\ ret.op = "add" /\ ret.x = I2S(3)
  /\ X = <<Zero, I2S(3), I2S(4)>> /\ Len(C) = 3 /\ C[2] = Zero /\ C[3] # Zero

\* C9: while the threshold has not changed since the first add, adjacent
\* stored abscissae are at least the threshold apart.
MinSeparation ==
  ~thresMoved =>
    \A i \in 1..Len(X) - 1 : SLe(abscissaDeltaThres, QSub(X[i + 1], X[i]))

\* the original C11: at threshold 0 an add of an abscissa already stored
\* stores it a second time, and interpolate() over a slot-pair of equal
\* abscissae throws slatec_polint_abscissae_not_distinct.
DuplicateSlipsThrough ==
  [][/\ (abscissaDeltaThres = Zero /\ ret'.op = "add" /\ ret'.thrown = Nothing
          /\ ret'.x \in Range(X)) =>
          (Len(X') = Len(X) + 1 /\ \E i \in 1..Len(X) : X'[i] = X'[i + 1])
     /\ (abscissaDeltaThres = Zero /\ ret'.op = "interpolate" /\ adds = 2
          /\ \E i \in 1..Len(pts) : Len(pts[i]) = 2 /\ pts[i][1][1] = pts[i][2][1]) =>
          ret'.thrown = Thrown("slatec_polint_status",
                               slatec_polint_abscissae_not_distinct)]_vars

\* C11, amended: at threshold 0 an add of an abscissa already stored merges
\* into that slot (n() unchanged, one count more, no slot inserted); after two
\* adds of one abscissa to an empty interpolator there is one slot holding
\* that abscissa with N = 2, and interpolate() returns without throwing.
DuplicateMerges ==
  [][/\ (abscissaDeltaThres = Zero /\ ret'.op = "add" /\ ret'.thrown = Nothing
          /\ ret'.x \in Range(X)) =>
          /\ Len(X') = Len(X)
          /\ SumSeq(N') = SumSeq(N) + 1
          /\ \E i \in 1..Len(X) : X[i] = ret'.x /\ N'[i] = N[i] + 1
          /\ adds = 1 => (X' = X /\ N' = <<2>>)
     /\ (ret'.op = "interpolate" /\ adds = 2 /\ Len(pts) = 1
          /\ pts[1][1][1] = pts[1][2][1]) =>
          (ret'.thrown = Nothing /\ X = <<pts[1][1][1]>>)]_vars

DuplicateMergesWitness ==
  /\ abscissaDeltaThres = Zero
  /\ ret.op = "interpolate" /\ ret.thrown = Nothing
  /\ X = <<I2S(3)>> /\ N = <<2>>
  /\ pts = << << <<I2S(3), Zero>>, <<I2S(3), One>> >> >>

\* C12: interpolate() throws the status slatec_polint gives for the current
\* (n(), X, Y) when it is not success (failure on zero slots,
\* abscissae_not_distinct on equal abscissae), returns normally otherwise,
\* and leaves X, Y, N and the threshold as they were.
StatusSurfaced ==
  [][ret'.op = "interpolate" =>
       /\ ret'.thrown =
            IF Len(N) = 0
            THEN Thrown("slatec_polint_status", slatec_polint_failure)
            ELSE IF \E i, j \in 1..Len(X) : i < j /\ X[i] = X[j]
            THEN Thrown("slatec_polint_status", slatec_polint_abscissae_not_distinct)
            ELSE Nothing
       /\ X' = X /\ Y' = Y /\ N' = N
       /\ abscissaDeltaThres' = abscissaDeltaThres]_vars

\* interpolate() on a cleared interpolator
StatusSurfacedWitness ==
  /\ ret.op = "interpolate" /\ Len(N) = 0
  /\ ret.thrown = Thrown("slatec_polint_status", slatec_polint_failure)
  /\ abscissaDeltaThres = I2S(3)

\* the original C13: after an add on valid coefficients, C differs from the
\* vector slatec_polint produces for the now-current (X, Y).
InsertionInvalidates ==
  [][(valid /\ ret'.op = "add" /\ ret'.thrown = Nothing) =>
       C' # slatec_polint(Len(N'), X', Y', C').c]_vars

\* C13, amended: add never recomputes coefficients: a merge leaves C as it
\* was, a new slot puts the placeholder 0 at its index and keeps the other
\* entries; C changes otherwise only in interpolate() and clear().  The
\* stale C may still equal the generator's vector for the new (X, Y).
StaleCoefficients ==
  [][/\ (ret'.op = "add" /\ Len(X') = Len(X)) => C' = C
     /\ (ret'.op = "add" /\ Len(X') # Len(X)) =>
          \E i \in 1..Len(X) + 1 : /\ X' = InsertAt(X, i - 1, ret'.x)
                                   /\ C' = InsertAt(C, i - 1, Zero)
     /\ ret'.op \notin {"add", "interpolate", "clear"} => C' = C]_vars

\* an add merged into a slot whose coefficient was generated, and C is still
\* what slatec_polint gives for the new (X, Y)
StaleCoefficientsWitness ==
  /\ ret.op = "add" /\ ret.thrown = Nothing
  /\ X = <<I2S(3)>> /\ Y = <<One>> /\ N = <<2>> /\ C = <<One>>
  /\ C = slatec_polint(Len(N), X, Y, C).c

RECURSIVE Flatten(_)
Flatten(ss) == IF ss = <<>> THEN <<>> ELSE Head(ss) \o Flatten(Tail(ss))

\* every two of the points ps have abscissae at most t apart
AllWithin(ps, t) ==
  \A i, j \in 1..Len(ps) :
    SLe(QSub(ps[i][1], ps[j][1]), t) /\ SLe(QSub(ps[j][1], ps[i][1]), t)

\* the original C14: whatever the arithmetic of Scalar, three points with
\* abscissae pairwise within the threshold end in one slot with N = 3 and X,
\* Y at the arithmetic means of the three, in every insertion order.
MergeOrderEqual ==
  LET ps == Flatten(pts)
  IN  (adds = 3 /\ ~thresMoved /\ AllWithin(ps, abscissaDeltaThres)) =>
        /\ N = <<3>> /\ Len(X) = 1 /\ Len(Y) = 1
        /\ X[1] = MeanOf(ps, 1) /\ Y[1] = MeanOf(ps, 2)

\* C14, amended: under a threshold fixed before the first add, three points whose
\* abscissae are pairwise within the threshold end, in whichever order they
\* were added and whichever merge branch each took, in one slot with N = 3
\* and (exact arithmetic) X and Y at the arithmetic means of the three.
MergeOrderInvariance ==
  LET ps == Flatten(pts)
  IN  (adds = 3 /\ ~thresMoved /\ AllWithin(ps, abscissaDeltaThres)) =>
        /\ N = <<3>> /\ Len(X) = 1 /\ Len(Y) = 1
        /\ arith = "exact" => /\ X[1] = MeanOf(ps, 1)
                              /\ Y[1] = MeanOf(ps, 2)

\* 3, then 1 merged from the left of the slot, then 2
MergeOrderInvarianceWitness ==
  /\ arith = "exact" /\ abscissaDeltaThres = I2S(2) /\ ~thresMoved
  /\ pts = << << <<I2S(3), Zero>>, <<I2S(1), One>>, <<I2S(2), Zero>> >> >>
  /\ X = <<I2S(2)>> /\ Y = << <<1, 3>> >> /\ N = <<3>>

----------------------------------------------------------------------------
(* Properties of the generator / evaluator pair *)

\* C15: the single precision routine of every header takes the steps of
\* its double precision counterpart: on the same arrays slatec_polintf
\* returns the status and the coefficients of slatec_polint, and polyvlf the
\* value of polyvl.
PrecisionVariantsAgree ==
  /\ phase \in {"generated", "compared"} => cmp.polintf = cmp.polint
  /\ phase = "compared" => cmp.polyvlf = cmp.polyvl

Distinct(x) == \A i, j \in DOMAIN x : i < j => x[i] # x[j]

Ascending(x) == \A i \in DOMAIN x : i = 1 \/ SLt(x[i - 1], x[i])

Perms(n) == {f \in [1..n -> 1..n] : \A i, j \in 1..n : i # j => f[i] # f[j]}

\* C1: in exact arithmetic, for n >= 1 pairwise-distinct abscissae in any
\* order, slatec_polint succeeds and slatec_polyvl called at an original
\* abscissa x[i] succeeds and returns y[i]; for n = 1 it returns y[0] at
\* every query xx.
Exactness ==
  (arith = "exact" /\ phase # "input" /\ Len(px) >= 1 /\ Distinct(px)) =>
    /\ pstatus = slatec_polint_success
    /\ phase = "evaluated" =>
         /\ vstatus = slatec_polyvl_success
         /\ \A i \in 1..Len(px) : pxx = px[i] => pyy = py[i]
         /\ Len(px) = 1 => pyy = py[1]

ExactnessWitness ==
  /\ arith = "exact" /\ phase = "evaluated"
  /\ px = <<I2S(2), I2S(0), I2S(4)>> /\ py = <<I2S(3), I2S(0), I2S(1)>>
  /\ pxx = I2S(4) /\ pyy = I2S(1)

\* C6: slatec_polint returns slatec_polint_failure iff n = 0; for n >= 1 it
\* returns slatec_polint_abscissae_not_distinct iff two abscissae are equal;
\* in every other case, n = 1 included, it returns slatec_polint_success.
StatusClassification ==
  phase # "input" =>
    /\ pstatus = slatec_polint_failure <=> Len(px) = 0
    /\ Len(px) >= 1 =>
         /\ pstatus = slatec_polint_abscissae_not_distinct <=> ~Distinct(px)
         /\ Distinct(px) => pstatus = slatec_polint_success

StatusClassificationWitness ==
  /\ phase = "generated"
  /\ px = <<I2S(1), I2S(2), I2S(1)>>
  /\ pstatus = slatec_polint_abscissae_not_distinct

\* C10: in exact arithmetic, for n >= 1 samples with pairwise-distinct
\* abscissae, generating and evaluating on any permutation of the (x, y)
\* pairs gives at every probe xx the value obtained for the unpermuted pairs.
OrderInvariance ==
  (arith = "exact" /\ phase = "evaluated" /\ Len(px) >= 1 /\ Distinct(px)) =>
    \A f \in Perms(Len(px)) :
      LET n  == Len(px)
          qx == [i \in 1..n |-> px[f[i]]]
          qy == [i \in 1..n |-> py[f[i]]]
          g  == slatec_polint(n, qx, qy, [i \in 1..n |-> Zero])
          v  == slatec_polyvl(pxx, Zero, n, qx, g.c)
      IN  /\ g.status = slatec_polint_success
          /\ v.status = slatec_polyvl_success
          /\ v.yy = pyy

OrderInvarianceWitness ==
  /\ arith = "exact" /\ phase = "evaluated"
  /\ px = <<I2S(4), I2S(0), I2S(1)>> /\ py = <<I2S(0), I2S(3), I2S(1)>>
  /\ pxx = I2S(6) /\ pyy # Zero

====
